---- MODULE Spec2Model ----
(***************************************************************************)
(* PDF_QA_Bot gateway: the upload relay, the query relays and the          *)
(* server-side session store, as implemented by the divergent copies of    *)
(* the gateway file kept in the repository:                                *)
(*   "session"    DocumentUploader.jsx 76-363  (session binding, cleanup)  *)
(*   "processpdf" DocumentUploader.jsx 458-547 (process-pdf upload)        *)
(*   "nocheck"    DocumentUploader.jsx 555-607 (upload without the         *)
(*                containment check)                                       *)
(*   "history"    DocumentUploader.jsx 616-662 (ask with chat history)     *)
(*   "legacy"     server.js                                                *)
(* A request is handled by one copy of its route's handler.  A handler is  *)
(* one action per run-to-completion segment: it is cut at each `await`     *)
(* and at each callback.                                                   *)
(* The limiters (express-rate-limit, fixed window per client) stand in     *)
(* front of the handlers: those the gateway builds with makeLimiter, and   *)
(* those of middleware/rateLimiter.js (unnamed/part_004), which that file  *)
(* says are to be mounted on the routes of server.js.                      *)
(* The page (frontend/src/App.js) is modelled by its React state, its      *)
(* requests in flight and the browser's localStorage; the gateway is its   *)
(* environment, and answers or fails each request.                         *)
(***************************************************************************)
EXTENDS Integers, Sequences, FiniteSets, TLC

\* ------------------------------------------------------------------ bounds
MaxReq == 2     \* request slots (requests that may be in flight together)
MaxNow == 2     \* values Date.now() takes
MaxOver == 1    \* requests a client sends in one window beyond the limit
MaxAdvances == 1  \* times the clock is advanced
TickMs == 20500 \* the shortest advance of the clock, in milliseconds
MaxLight == 1   \* requests of a client to a class it does not flood
MaxDocs == 3    \* documents the user uploads
MaxChat == 2    \* questions the user asks and summaries the user requests
MaxPending == 2 \* requests of one kind the page has in flight together

Reqs == 1..MaxReq
Times == 1..MaxNow

\* ------------------------------------------------------- input alphabets
Cookies == {"A", "B"}
PDF_MIME == "application/pdf"
MimeTypes == {PDF_MIME, "text/plain"}

\* A path is a sequence of segments; a segment is [t, n]: the name n,
\* prefixed by the timestamp t and "-" when t > 0 (t = 0: no prefix).
Seg(n) == [t |-> 0, n |-> n]
DotDot == Seg("..")

\* file.originalname of the multipart part, split at the path separator.  The
\* name is the client's: nothing in the gateway strips separators or ".."
\* from it before the storage engine builds the file name.
OrigNames ==
  { <<Seg("a.pdf")>>,
    <<Seg("a"), DotDot>>,
    <<Seg("a"), DotDot, DotDot, Seg("x.pdf")>> }

\* req.ip of the clients and the route classes that have a limiter
IPs == {"ip1", "ip2"}
Classes == {"upload", "ask", "summarize", "compare"}

\* what the upstream service answers
Kinds == {"ok", "non2xx", "refused", "timeout"}
UpIds == {"s1", "s2"}          \* session_id / doc_id issued by the upstream
ErrBodies == {"e1", "e2"}      \* body of an upstream error response
UpData == {"d1", "d2"}         \* JSON body of an upstream success response

Undefined == "<undefined>"

\* body.comparison of a JSON body
ComparisonField(body) ==
  CASE body \in {"d1", "d1.comparison"} -> "c1"
    [] body \in {"d2", "d2.comparison"} -> "c2"
    [] OTHER -> Undefined

\* the body {comparison: body.comparison}
ComparisonOnly(body) ==
  CASE body = "d1" -> "d1.comparison"
    [] body = "d2" -> "d2.comparison"
    [] OTHER -> "{}"

\* body.answer of a JSON body
AnswerField(body) ==
  CASE body = "d1" -> "a1"
    [] body = "d2" -> "a2"
    [] OTHER -> Undefined

Questions == {Undefined, "", "q1"}
\* req.body.session_ids: def = FALSE when the field is missing
SessionIdLists ==
  { [def |-> FALSE, ids |-> <<>>],
    [def |-> TRUE, ids |-> <<>>],
    [def |-> TRUE, ids |-> <<"s1">>],
    [def |-> TRUE, ids |-> <<"s1", "s2">>] }

\* ------------------------------------------------------------ path module
APP_DIR == <<Seg("app")>>                         \* __dirname
UPLOAD_DIR == APP_DIR \o <<Seg("uploads")>>

\* path.normalize on an absolute path: ".." removes the segment before it
RECURSIVE Normalize(_, _)
Normalize(acc, segs) ==
  IF segs = <<>> THEN acc
  ELSE IF Head(segs) = DotDot
       THEN Normalize(IF acc = <<>> THEN acc ELSE SubSeq(acc, 1, Len(acc) - 1),
                      Tail(segs))
       ELSE Normalize(Append(acc, Head(segs)), Tail(segs))

\* path.join(a, b): concatenate, then normalize
PathJoin(a, b) == Normalize(<<>>, a \o b)

\* Date.now() + "-" + file.originalname: the prefix joins the first segment
UniqueName(t, name) ==
  <<[t |-> t, n |-> Head(name).n]>> \o Tail(name)

\* String.prototype.startsWith(dir + path.sep) on normalized paths
StartsWithDirSep(p, dir) ==
  /\ Len(p) > Len(dir)
  /\ SubSeq(p, 1, Len(dir)) = dir

\* the directories that exist: a file cannot be written at one of them
Directories == { SubSeq(UPLOAD_DIR, 1, k) : k \in 0..Len(UPLOAD_DIR) }

\* ------------------------------------------------------------------ state
VARIABLES
  req,        \* request slot -> the request and the position of its handler
  disk,       \* files on the gateway's disk: set of [path, owner]
  session,    \* express-session store: cookie -> [currentSessionId, chatHistory]
  upstream,   \* HTTP calls issued to the RAG service: set of call records
  log,        \* console.error output: set of [r, text]
  now,        \* last value Date.now() returned
  limiters,   \* the limiters the process constructed: class -> options and store
  clock,      \* the limiters' clock: [ms since the process started, advances]
  results,    \* per class and IP: requests that passed, requests answered 429
  ui,         \* the page: React state of App and its requests in flight
  localStorage  \* the browser's storage of the page's origin: key -> string

vars == <<req, disk, session, upstream, log, now, limiters, clock, results,
          ui, localStorage>>

\* the state of the browser
fvars == <<ui, localStorage>>

\* the state of the gateway process
gvars == <<req, disk, session, upstream, log, now, limiters, clock, results>>

\* the state of the limiters and of the count of their answers
lvars == <<limiters, clock, results>>

NoResp ==
  [status |-> 0, error |-> "", details |-> "", session_id |-> "", doc_id |-> "",
   data |-> "", retryAfter |-> 0]

Idle ==
  [route |-> "", copy |-> "", pc |-> "idle", cookie |-> "A", ip |-> "",
   hasFile |-> FALSE, stored |-> FALSE, mimetype |-> "", origname |-> <<>>, path |-> <<>>,
   stream |-> "none", question |-> "", sids |-> [def |-> FALSE, ids |-> <<>>],
   kind |-> "", issued |-> "", updata |-> "", h0 |-> <<>>,
   calls |-> 0, sent |-> 0, resp |-> NoResp]

NoId == ""

\* -------------------------------------------------------- frontend state
\* null: the comparison result before any comparison
Null == "<null>"

\* what localStorage holds under a key: no item, or the item str; the same
\* for a setState that is or is not queued
NoItem == {}
Item(str) == {str}
ItemOf(x) == CHOOSE str \in x : TRUE

\* the actions of the page that send a request
PageActions == {"upload", "ask", "summarize", "compare"}

\* useState initial values of App; the page is not open.  heldChat and
\* heldPdfs are what the page held when it was last closed after it had
\* loaded
Closed ==
  [phase |-> "closed", file |-> FALSE, pdfs |-> <<>>, selectedSessions |-> <<>>,
   chatHistory |-> <<>>, comparisonResult |-> Null, question |-> "",
   uploading |-> FALSE, asking |-> FALSE, summarizing |-> FALSE, comparing |-> FALSE,
   darkMode |-> FALSE,
   loadedChat |-> NoItem, loadedPdfs |-> NoItem,
   heldChat |-> <<>>, heldPdfs |-> <<>>,
   pending |-> [k \in PageActions |-> 0]]

\* a browser that has never opened the page
NoStorage == [theme |-> NoItem, chatHistory |-> NoItem, pdfs |-> NoItem]

\* session_id of the documents, in the order the upstream issues them
DocIds == 1..MaxDocs

\* JSON.stringify of a value without undefined members, and JSON.parse of
\* the string
Stringify(v) == [json |-> v]
Parse(str) == str.json

\* JSON.stringify(chatHistory): a member whose value is undefined is left
\* out of its object; reading it from the parsed object gives undefined
StringifyChat(h) ==
  [json |-> [i \in 1..Len(h) |->
               IF h[i].text = Undefined THEN [role |-> h[i].role] ELSE h[i]]]
ParseChat(str) ==
  [i \in 1..Len(str.json) |->
     IF "text" \in DOMAIN str.json[i] THEN str.json[i]
     ELSE [role |-> str.json[i].role, text |-> Undefined]]

\* ------------------------------------------------------------ rate limiters
\* middleware/rateLimiter.js
GLOBAL_WINDOW_MS == 15 * 60 * 1000
UPLOAD_WINDOW_MS == 30 * 60 * 1000
QUERY_WINDOW_MS == 60 * 1000
GLOBAL_LIMIT == 200
UPLOAD_LIMIT == 10
ASK_LIMIT == 20
SUMMARIZE_LIMIT == 10
COMPARE_LIMIT == 10

\* the gateway's own constants (DocumentUploader.jsx)
RATE_LIMIT_WINDOW_MS == 15 * 60 * 1000
GATEWAY_UPLOAD_LIMIT == 5
GATEWAY_ASK_LIMIT == 30
GATEWAY_SUMMARIZE_LIMIT == 10
GATEWAY_COMPARE_LIMIT == 10

\* tests/test_rate_limit.js
ASK_RATE_LIMIT == 20
TEST_REQUEST_COUNT == ASK_RATE_LIMIT + 1

\* Math.ceil(a / b) for a >= 0, b > 0
Ceil(a, b) == (a + b - 1) \div b

\* a new MemoryStore: no client has an open window
FreshHits == [ip \in IPs |-> [totalHits |-> 0, resetTime |-> 0]]

\* rateLimit({windowMs: RATE_LIMIT_WINDOW_MS, max, message, standardHeaders:
\* true, legacyHeaders: false}): the library's own handler answers
makeLimiter(max) ==
  [windowMs |-> RATE_LIMIT_WINDOW_MS, max |-> max, custom |-> FALSE, hits |-> FreshHits]

\* rateLimit({windowMs, max, standardHeaders: true, legacyHeaders: false,
\* handler}): the handler of rateLimiter.js answers
buildLimiter(windowMs, max) ==
  [windowMs |-> windowMs, max |-> max, custom |-> TRUE, hits |-> FreshHits]

\* uploadLimiter, askLimiter, summarizeLimiter, compareLimiter of the gateway
GatewayLimiters ==
  [upload |-> makeLimiter(GATEWAY_UPLOAD_LIMIT),
   ask |-> makeLimiter(GATEWAY_ASK_LIMIT),
   summarize |-> makeLimiter(GATEWAY_SUMMARIZE_LIMIT),
   compare |-> makeLimiter(GATEWAY_COMPARE_LIMIT)]

\* the route limiters rateLimiter.js exports
MiddlewareLimiters ==
  [upload |-> buildLimiter(UPLOAD_WINDOW_MS, UPLOAD_LIMIT),
   ask |-> buildLimiter(QUERY_WINDOW_MS, ASK_LIMIT),
   summarize |-> buildLimiter(QUERY_WINDOW_MS, SUMMARIZE_LIMIT),
   compare |-> buildLimiter(QUERY_WINDOW_MS, COMPARE_LIMIT)]

\* all that rateLimiter.js exports: the route limiters and globalLimiter,
\* which is to count every request of the process
BackstopLimiters ==
  [global |-> buildLimiter(GLOBAL_WINDOW_MS, GLOBAL_LIMIT),
   upload |-> buildLimiter(UPLOAD_WINDOW_MS, UPLOAD_LIMIT),
   ask |-> buildLimiter(QUERY_WINDOW_MS, ASK_LIMIT),
   summarize |-> buildLimiter(QUERY_WINDOW_MS, SUMMARIZE_LIMIT),
   compare |-> buildLimiter(QUERY_WINDOW_MS, COMPARE_LIMIT)]

\* server.js as it is: it constructs no limiter
NoLimiters == [l \in {} |-> buildLimiter(QUERY_WINDOW_MS, 0)]

\* the tally of answers: per class, and under "global" for the routes that
\* have no limiter of their own
NoResults ==
  [l \in Classes \cup {"global"} |-> [ip \in IPs |-> [passed |-> 0, limited |-> 0]]]

\* the state after the process started with the limiters lims
InitWith(lims) ==
  /\ req = [r \in Reqs |-> Idle]
  /\ disk = {}
  /\ session = [c \in Cookies |-> [currentSessionId |-> NoId, chatHistory |-> <<>>]]
  /\ upstream = {}
  /\ log = {}
  /\ now = 1
  /\ limiters = lims
  /\ clock = [ms |-> 0, advances |-> 0]
  /\ results = NoResults
  /\ ui = Closed
  /\ localStorage = NoStorage

Init == InitWith(GatewayLimiters)

\* the process is the gateway, server.js with the limiters of rateLimiter.js
\* mounted on its routes, or server.js as it is
InitLimiter ==
  \E lims \in {GatewayLimiters, MiddlewareLimiters, NoLimiters} : InitWith(lims)

\* the same, with globalLimiter mounted too where rateLimiter.js is
InitBackstop ==
  \E lims \in {GatewayLimiters, BackstopLimiters, NoLimiters} : InitWith(lims)

\* ------------------------------------------------------------- primitives
\* the handler of request r has ended and none of its callbacks is pending
Completed(r) == req[r].pc = "done"

\* res.status(s).json({error, details, session_id, ...data}): one more response
\* sent; the client keeps the first one
Send(q, status, error, details, sid, data) ==
  [q EXCEPT !.sent = q.sent + 1,
            !.resp = IF q.sent = 0
                     THEN [status |-> status, error |-> error, details |-> details,
                           session_id |-> sid, doc_id |-> "", data |-> data,
                           retryAfter |-> 0]
                     ELSE q.resp]

\* the file request r stored is on disk (and is still the one it wrote)
OnDisk(r) == req[r].stored /\ [path |-> req[r].path, owner |-> r] \in disk

\* fs.writeFile at path p by request r: replaces what was there
WriteFile(d, p, r) == { f \in d : f.path # p } \cup { [path |-> p, owner |-> r] }

\* fs.unlink(p): removes whatever file is at p
Unlink(d, p) == { f \in d : f.path # p }

\* fs.existsSync(p)
ExistsSync(d, p) == \E f \in d : f.path = p

\* JavaScript truthiness of req.body.question
Falsy(q) == q \in {Undefined, ""}

\* err.response?.data || err.message
ErrText(kind, body) ==
  CASE kind = "non2xx" -> body
    [] kind = "refused" -> "connect ECONNREFUSED"
    [] kind = "timeout" -> "timeout exceeded"
    [] OTHER -> ""

\* err.code of the rejected axios call
ErrCode(kind) ==
  CASE kind = "refused" -> "ECONNREFUSED"
    [] kind = "timeout" -> "ECONNABORTED"
    [] kind = "non2xx" -> "ERR_BAD_RESPONSE"
    [] OTHER -> ""

\* axios.post(url, payload): the call is recorded as issued
Call(r, url, q) ==
  [r |-> r, n |-> q.calls + 1, url |-> url, path |-> q.path, mimetype |-> q.mimetype,
   question |-> q.question, sids |-> q.sids]

\* ------------------------------------------------- POST /upload, "session"
\* multer.diskStorage({destination: UPLOAD_DIR, filename: Date.now()-originalname})
DiskStoragePath(t, name) == PathJoin(UPLOAD_DIR, UniqueName(t, name))

\* the containment check of the handler: TRUE when the path is accepted
Contained(filePath) ==
  StartsWithDirSep(filePath, UPLOAD_DIR) \/ filePath = UPLOAD_DIR

\* upload.single("file") and the handler up to `await axios.post`
UploadSessionStart(r, c, hasFile, name, mime, t) ==
  /\ req[r].pc = "idle"
  /\ t >= now
  /\ now' = t
  /\ LET p == DiskStoragePath(t, name)
         q0 == [req[r] EXCEPT !.route = "upload", !.copy = "session", !.cookie = c,
                              !.hasFile = hasFile]
         q1 == [q0 EXCEPT !.stored = TRUE, !.mimetype = mime, !.origname = name, !.path = p]
     IN  IF ~hasFile
         THEN /\ req' = [req EXCEPT ![r] =
                           [Send(q0, 400, "No file uploaded.", "", "", "")
                              EXCEPT !.pc = "done"]]
              /\ UNCHANGED <<disk, upstream>>
         ELSE IF p \in Directories
         THEN \* multer cannot write the file: next(err), Express answers 500
              /\ req' = [req EXCEPT ![r] =
                           [Send(q0, 500,
                                 "Internal Server Error", "", "", "")
                              EXCEPT !.pc = "done"]]
              /\ UNCHANGED <<disk, upstream>>
         ELSE IF ~Contained(p)
         THEN /\ disk' = WriteFile(disk, p, r)
              /\ req' = [req EXCEPT ![r] =
                           [Send(q1, 400, "Invalid file path.", "", "", "")
                              EXCEPT !.pc = "done"]]
              /\ UNCHANGED upstream
         ELSE /\ disk' = WriteFile(disk, p, r)
              /\ upstream' = upstream \cup {Call(r, "/upload", q1)}
              /\ req' = [req EXCEPT ![r] =
                           [q1 EXCEPT !.stream = "open", !.calls = 1,
                                      !.pc = "awaiting"]]
  /\ UNCHANGED <<session, log>>

\* the rest of the handler once the upstream call settles: session binding and
\* res.json, or catch; then finally (stream destroyed, fs.unlink issued)
UploadSessionReturn(r, kind, id, body) ==
  /\ req[r].pc = "awaiting"
  /\ req[r].route = "upload"
  /\ req[r].copy = "session"
  /\ LET q == [req[r] EXCEPT !.kind = kind, !.issued = IF kind = "ok" THEN id ELSE "",
                             !.stream = "destroyed", !.pc = "unlinking"]
     IN  IF kind = "ok"
         THEN /\ session' = [session EXCEPT ![q.cookie] =
                               [currentSessionId |-> id, chatHistory |-> <<>>]]
              /\ req' = [req EXCEPT ![r] = Send(q, 200, "", "", id, "")]
              /\ UNCHANGED log
         ELSE /\ log' = log \cup {[r |-> r, text |-> ErrText(kind, body)]}
              /\ req' = [req EXCEPT ![r] =
                           Send(q, 500, "Failed to process file. Please try again.",
                                "", "", "")]
              /\ UNCHANGED session
  /\ UNCHANGED <<disk, upstream, now>>

\* ------------------------------------------------- POST /upload, "nocheck"
\* the same handler without the containment check
UploadNoCheckStart(r, c, hasFile, name, mime, t) ==
  /\ req[r].pc = "idle"
  /\ t >= now
  /\ now' = t
  /\ LET p == DiskStoragePath(t, name)
         q0 == [req[r] EXCEPT !.route = "upload", !.copy = "nocheck", !.cookie = c,
                              !.hasFile = hasFile]
         q1 == [q0 EXCEPT !.stored = TRUE, !.mimetype = mime, !.origname = name, !.path = p]
     IN  IF ~hasFile
         THEN /\ req' = [req EXCEPT ![r] =
                           [Send(q0, 400, "No file uploaded.", "", "", "")
                              EXCEPT !.pc = "done"]]
              /\ UNCHANGED <<disk, upstream>>
         ELSE IF p \in Directories
         THEN \* multer cannot write the file: next(err), the global error
              \* handler of this copy answers 400
              /\ req' = [req EXCEPT ![r] =
                           [Send(q0, 400, "EISDIR", "", "", "")
                              EXCEPT !.pc = "done"]]
              /\ UNCHANGED <<disk, upstream>>
         ELSE /\ disk' = WriteFile(disk, p, r)
              /\ upstream' = upstream \cup {Call(r, "/upload", q1)}
              /\ req' = [req EXCEPT ![r] =
                           [q1 EXCEPT !.stream = "open", !.calls = 1,
                                      !.pc = "awaiting"]]
  /\ UNCHANGED <<session, log>>

UploadNoCheckReturn(r, kind, id, body) ==
  /\ req[r].pc = "awaiting"
  /\ req[r].route = "upload"
  /\ req[r].copy = "nocheck"
  /\ LET q == [req[r] EXCEPT !.kind = kind, !.issued = IF kind = "ok" THEN id ELSE "",
                             !.stream = "destroyed", !.pc = "unlinking"]
     IN  IF kind = "ok"
         THEN /\ session' = [session EXCEPT ![q.cookie] =
                               [currentSessionId |-> id, chatHistory |-> <<>>]]
              /\ req' = [req EXCEPT ![r] = Send(q, 200, "", "", id, "")]
              /\ UNCHANGED log
         ELSE /\ log' = log \cup {[r |-> r, text |-> ErrText(kind, body)]}
              /\ req' = [req EXCEPT ![r] =
                           Send(q, 500, "Failed to process file. Please try again.",
                                "", "", "")]
              /\ UNCHANGED session
  /\ UNCHANGED <<disk, upstream, now>>

\* ---------------------------------------------------- multer({dest: ...})
\* multer names the file itself (random hex): one name per request
DestPath(r) == PathJoin(APP_DIR, <<Seg("uploads"), [t |-> r, n |-> "hex"]>>)

\* ---------------------------------------------- POST /upload, "processpdf"
\* The copy does not bind `upload`: usesDest = TRUE is multer({dest: "uploads/"})
\* (req.file.path relative, as in server.js), FALSE is multer({storage})
\* (req.file.path absolute).  filePath = path.join(__dirname, req.file.path).
ProcessPdfFilePath(stored, usesDest) ==
  IF usesDest THEN stored ELSE PathJoin(APP_DIR, stored)

UploadProcessPdfStart(r, hasFile, name, mime, t, usesDest) ==
  /\ req[r].pc = "idle"
  /\ t >= now
  /\ now' = t
  /\ LET stored == IF usesDest THEN DestPath(r) ELSE DiskStoragePath(t, name)
         p == ProcessPdfFilePath(stored, usesDest)
         q0 == [req[r] EXCEPT !.route = "upload", !.copy = "processpdf",
                              !.hasFile = hasFile]
         q1 == [q0 EXCEPT !.stored = TRUE, !.mimetype = mime, !.origname = name, !.path = stored]
     IN  IF ~hasFile
         THEN /\ req' = [req EXCEPT ![r] =
                           [Send(q0, 400, "No file uploaded. Use form field name 'file'.",
                                 "", "", "")
                              EXCEPT !.pc = "done"]]
              /\ UNCHANGED <<disk, upstream>>
         ELSE IF stored \in Directories
         THEN /\ req' = [req EXCEPT ![r] =
                           [Send(q0, 400, "EISDIR", "", "", "")
                              EXCEPT !.pc = "done"]]
              /\ UNCHANGED <<disk, upstream>>
         ELSE IF ~ExistsSync(WriteFile(disk, stored, r), p)
         THEN /\ disk' = WriteFile(disk, stored, r)
              /\ req' = [req EXCEPT ![r] =
                           [Send(q1, 500, "File upload failed - file not found on disk",
                                 "", "", "")
                              EXCEPT !.pc = "done"]]
              /\ UNCHANGED upstream
         ELSE /\ disk' = WriteFile(disk, stored, r)
              /\ upstream' = upstream \cup {Call(r, "/process-pdf", q1)}
              /\ req' = [req EXCEPT ![r] = [q1 EXCEPT !.calls = 1, !.pc = "awaiting"]]
  /\ UNCHANGED <<session, log>>

\* after the await: res.json on success; in catch, unlinkSync and the error
\* classification
UploadProcessPdfReturn(r, kind, id, body) ==
  /\ req[r].pc = "awaiting"
  /\ req[r].route = "upload"
  /\ req[r].copy = "processpdf"
  /\ LET q == [req[r] EXCEPT !.kind = kind, !.issued = IF kind = "ok" THEN id ELSE "",
                             !.pc = "done"]
     IN  IF kind = "ok"
         THEN /\ req' = [req EXCEPT ![r] = Send(q, 200, "", "", "", "")]
              /\ UNCHANGED <<disk, log>>
         ELSE /\ disk' = IF ExistsSync(disk, q.path) THEN Unlink(disk, q.path) ELSE disk
              /\ IF ErrCode(kind) = "ECONNREFUSED"
                 THEN /\ req' = [req EXCEPT ![r] =
                                   Send(q, 503, "RAG service unavailable",
                                        "Please ensure the Python service is running on port 5000",
                                        "", "")]
                      /\ log' = log \cup {[r |-> r, text |-> "RAG service not available"]}
                 ELSE /\ req' = [req EXCEPT ![r] =
                                   Send(q, 500, "PDF processing failed",
                                        ErrText(kind, body), "", "")]
                      /\ log' = log \cup {[r |-> r, text |-> ErrText(kind, body)]}
  /\ UNCHANGED <<session, upstream, now>>

\* -------------------------------------------------- POST /upload, "legacy"
\* server.js: no guard, no cleanup; req.file.path of an absent file throws
\* inside try
UploadLegacyStart(r, hasFile, mime) ==
  /\ req[r].pc = "idle"
  /\ LET p == DestPath(r)
         q0 == [req[r] EXCEPT !.route = "upload", !.copy = "legacy",
                              !.hasFile = hasFile]
         q1 == [q0 EXCEPT !.stored = TRUE, !.mimetype = mime, !.path = p]
     IN  IF ~hasFile
         THEN /\ req' = [req EXCEPT ![r] =
                           [Send(q0, 500, "Upload failed", "", "", "")
                              EXCEPT !.pc = "done"]]
              /\ UNCHANGED <<disk, upstream>>
         ELSE /\ disk' = WriteFile(disk, p, r)
              /\ upstream' = upstream \cup {Call(r, "/process-pdf", q1)}
              /\ req' = [req EXCEPT ![r] = [q1 EXCEPT !.calls = 1, !.pc = "awaiting"]]
  /\ UNCHANGED <<session, log, now>>

UploadLegacyReturn(r, kind, id) ==
  /\ req[r].pc = "awaiting"
  /\ req[r].route = "upload"
  /\ req[r].copy = "legacy"
  /\ LET q == [req[r] EXCEPT !.kind = kind, !.issued = IF kind = "ok" THEN id ELSE "",
                             !.pc = "done"]
     IN  IF kind = "ok"
         THEN req' = [req EXCEPT ![r] =
                        [Send(q, 200, "", "", "", "") EXCEPT !.resp.doc_id = id]]
         ELSE req' = [req EXCEPT ![r] = Send(q, 500, "Upload failed", "", "", "")]
  /\ UNCHANGED <<disk, session, upstream, log, now>>

\* the callback of fs.unlink(filePath, cb) issued in finally
UnlinkCallback(r) ==
  /\ req[r].pc = "unlinking"
  /\ disk' = Unlink(disk, req[r].path)
  /\ req' = [req EXCEPT ![r].pc = "done"]
  /\ UNCHANGED <<session, upstream, log, now>>

\* ------------------------------------------------------ POST /ask, "relay"
\* the validation of req.body shared by the copies that validate
AskInvalid(question, sids) ==
  IF Falsy(question) THEN "Question is required."
  ELSE IF ~sids.def \/ Len(sids.ids) = 0
       THEN "At least one document (session_id) is required."
       ELSE ""

AskRelayStart(r, question, sids) ==
  /\ req[r].pc = "idle"
  /\ LET q == [req[r] EXCEPT !.route = "ask", !.copy = "relay",
                             !.question = question, !.sids = sids]
     IN  IF AskInvalid(question, sids) # ""
         THEN /\ req' = [req EXCEPT ![r] =
                           [Send(q, 400, AskInvalid(question, sids), "", "", "")
                              EXCEPT !.pc = "done"]]
              /\ UNCHANGED upstream
         ELSE /\ upstream' = upstream \cup {Call(r, "/ask", q)}
              /\ req' = [req EXCEPT ![r] =
                           [q EXCEPT !.calls = 1, !.pc = "awaiting",
                                     !.h0 = session[q.cookie].chatHistory]]
  /\ UNCHANGED <<disk, session, log, now>>

\* the tail shared by the try/catch relays: res.json(response.data), or log
\* and a fixed 500
RelayReturn(r, route, copy, kind, data, body, msg) ==
  /\ req[r].pc = "awaiting"
  /\ req[r].route = route
  /\ req[r].copy = copy
  /\ LET q == [req[r] EXCEPT !.kind = kind, !.pc = "done"]
     IN  IF kind = "ok"
         THEN /\ req' = [req EXCEPT ![r] =
                           Send([q EXCEPT !.updata = data], 200, "", "", "", data)]
              /\ UNCHANGED log
         ELSE /\ log' = log \cup {[r |-> r, text |-> ErrText(kind, body)]}
              /\ req' = [req EXCEPT ![r] = Send(q, 500, msg, "", "", "")]
  /\ UNCHANGED <<disk, session, upstream, now>>

AskRelayReturn(r, kind, data, body) ==
  RelayReturn(r, "ask", "relay", kind, data, body,
              "Failed to process question. Please try again.")

\* ---------------------------------------------------- POST /ask, "history"
AskHistoryStart(r, c, question, sids) ==
  /\ req[r].pc = "idle"
  /\ LET q == [req[r] EXCEPT !.route = "ask", !.copy = "history", !.cookie = c,
                             !.question = question, !.sids = sids]
     IN  IF AskInvalid(question, sids) # ""
         THEN /\ req' = [req EXCEPT ![r] =
                           [Send(q, 400, AskInvalid(question, sids), "", "", "")
                              EXCEPT !.pc = "done"]]
              /\ UNCHANGED upstream
         ELSE /\ upstream' = upstream \cup {Call(r, "/ask", q)}
              /\ req' = [req EXCEPT ![r] =
                           [q EXCEPT !.calls = 1, !.pc = "awaiting",
                                     !.h0 = session[q.cookie].chatHistory]]
  /\ UNCHANGED <<disk, session, log, now>>

\* after the first await: the user message is pushed and the second call
\* (question + history) is issued; a failure goes to catch
AskHistoryFirstReturn(r, kind, body) ==
  /\ req[r].pc = "awaiting"
  /\ req[r].route = "ask"
  /\ req[r].copy = "history"
  /\ LET q == req[r]
     IN  IF kind = "ok"
         THEN /\ session' = [session EXCEPT ![q.cookie].chatHistory =
                               Append(@, [role |-> "user", content |-> q.question])]
              /\ upstream' = upstream \cup {Call(r, "/ask", q)}
              /\ req' = [req EXCEPT ![r] = [q EXCEPT !.calls = 2, !.pc = "awaiting2"]]
              /\ UNCHANGED log
         ELSE /\ log' = log \cup {[r |-> r, text |-> ErrText(kind, body)]}
              /\ req' = [req EXCEPT ![r] =
                           [Send(q, 500, "Failed to process question. Please try again.",
                                 "", "", "")
                              EXCEPT !.kind = kind, !.pc = "done"]]
              /\ UNCHANGED <<session, upstream>>
  /\ UNCHANGED <<disk, now>>

\* after the second await: the answer is pushed and relayed, and the
\* statement after the try block sends a second body; a failure goes to
\* catch, which returns
AskHistorySecondReturn(r, kind, data, body) ==
  /\ req[r].pc = "awaiting2"
  /\ LET q == [req[r] EXCEPT !.kind = kind, !.pc = "done"]
     IN  IF kind = "ok"
         THEN /\ session' = [session EXCEPT ![q.cookie].chatHistory =
                               Append(@, [role |-> "assistant",
                                          content |-> AnswerField(data)])]
              /\ req' = [req EXCEPT ![r] =
                           Send(Send([q EXCEPT !.updata = data], 200, "", "", "", data),
                                200, "", "", "", "History cleared")]
              /\ UNCHANGED log
         ELSE /\ log' = log \cup {[r |-> r, text |-> ErrText(kind, body)]}
              /\ req' = [req EXCEPT ![r] =
                           Send(q, 500, "Failed to process question. Please try again.",
                                "", "", "")]
              /\ UNCHANGED session
  /\ UNCHANGED <<disk, upstream, now>>

\* ------------------------------------------------------ POST /clear-history
\* every session's history is emptied, whoever calls
ClearHistoryOfAll(r, c) ==
  /\ req[r].pc = "idle"
  /\ session' = [b \in Cookies |-> [session[b] EXCEPT !.chatHistory = <<>>]]
  /\ req' = [req EXCEPT ![r] =
               Send([req[r] EXCEPT !.route = "clear-history", !.copy = "history",
                                   !.cookie = c, !.pc = "done"],
                    200, "", "", "", "History cleared")]
  /\ UNCHANGED <<disk, upstream, log, now>>

\* req.session is the caller's session (the session middleware always sets
\* it); the handler is synchronous
ClearHistory(r, c) ==
  /\ req[r].pc = "idle"
  /\ session' = [session EXCEPT ![c].chatHistory = <<>>]
  /\ req' = [req EXCEPT ![r] =
               Send([req[r] EXCEPT !.route = "clear-history", !.copy = "history",
                                   !.cookie = c, !.pc = "done"],
                    200, "", "", "", "History cleared")]
  /\ UNCHANGED <<disk, upstream, log, now>>

\* ----------------------------------------------------- POST /ask, "legacy"
\* server.js: req.body is forwarded as it is; a rejected call is not caught,
\* so the handler ends without a response
\* `${RAG_SERVICE_URL}/ask`, `${RAG_SERVICE_URL}/summarize`, ...
LegacyUrl(route) ==
  CASE route = "ask" -> "/ask"
    [] route = "summarize" -> "/summarize"
    [] route = "compare" -> "/compare"

LegacyStart(r, route, question, sids) ==
  /\ req[r].pc = "idle"
  /\ LET q == [req[r] EXCEPT !.route = route, !.copy = "legacy",
                             !.question = question, !.sids = sids]
     IN  /\ upstream' = upstream \cup {Call(r, LegacyUrl(route), q)}
         /\ req' = [req EXCEPT ![r] =
                      [q EXCEPT !.calls = 1, !.pc = "awaiting",
                                !.h0 = session[q.cookie].chatHistory]]
  /\ UNCHANGED <<disk, session, log, now>>

LegacyReturn(r, route, kind, data) ==
  /\ req[r].pc = "awaiting"
  /\ req[r].route = route
  /\ req[r].copy = "legacy"
  /\ LET q == [req[r] EXCEPT !.kind = kind, !.pc = "done"]
     IN  req' = [req EXCEPT ![r] =
                   IF kind = "ok"
                   THEN Send([q EXCEPT !.updata = data], 200, "", "", "", data)
                   ELSE q]
  /\ UNCHANGED <<disk, session, upstream, log, now>>

AskLegacyStart(r, question, sids) == LegacyStart(r, "ask", question, sids)
AskLegacyReturn(r, kind, data) == LegacyReturn(r, "ask", kind, data)

\* ---------------------------------------------------------- POST /summarize
SummarizeInvalid(sids) == ~sids.def \/ Len(sids.ids) = 0

SummarizeRelayStart(r, sids) ==
  /\ req[r].pc = "idle"
  /\ LET q == [req[r] EXCEPT !.route = "summarize", !.copy = "relay", !.sids = sids]
     IN  IF SummarizeInvalid(sids)
         THEN /\ req' = [req EXCEPT ![r] =
                           [Send(q, 400, "At least one document (session_id) is required.",
                                 "", "", "")
                              EXCEPT !.pc = "done"]]
              /\ UNCHANGED upstream
         ELSE /\ upstream' = upstream \cup {Call(r, "/summarize", q)}
              /\ req' = [req EXCEPT ![r] = [q EXCEPT !.calls = 1, !.pc = "awaiting"]]
  /\ UNCHANGED <<disk, session, log, now>>

SummarizeRelayReturn(r, kind, data, body) ==
  RelayReturn(r, "summarize", "relay", kind, data, body,
              "Failed to summarize documents. Please try again.")

SummarizeLegacyStart(r, sids) == LegacyStart(r, "summarize", "", sids)
SummarizeLegacyReturn(r, kind, data) == LegacyReturn(r, "summarize", kind, data)

\* ------------------------------------------------------------ POST /compare
CompareInvalid(sids) == ~sids.def \/ Len(sids.ids) < 2

CompareRelayStart(r, sids) ==
  /\ req[r].pc = "idle"
  /\ LET q == [req[r] EXCEPT !.route = "compare", !.copy = "relay", !.sids = sids]
     IN  IF CompareInvalid(sids)
         THEN /\ req' = [req EXCEPT ![r] =
                           [Send(q, 400, "At least 2 documents are required for comparison.",
                                 "", "", "")
                              EXCEPT !.pc = "done"]]
              /\ UNCHANGED upstream
         ELSE /\ upstream' = upstream \cup {Call(r, "/compare", q)}
              /\ req' = [req EXCEPT ![r] = [q EXCEPT !.calls = 1, !.pc = "awaiting"]]
  /\ UNCHANGED <<disk, session, log, now>>

CompareRelayReturn(r, kind, data, body) ==
  RelayReturn(r, "compare", "relay", kind, data, body,
              "Failed to compare documents. Please try again.")

\* server.js: forwarded without validation, inside try/catch; the response
\* is {comparison: response.data.comparison}
CompareLegacyStart(r, sids) == LegacyStart(r, "compare", "", sids)

CompareLegacyReturn(r, kind, data, body) ==
  /\ req[r].pc = "awaiting"
  /\ req[r].route = "compare"
  /\ req[r].copy = "legacy"
  /\ LET q == [req[r] EXCEPT !.kind = kind, !.pc = "done"]
     IN  IF kind = "ok"
         THEN /\ req' = [req EXCEPT ![r] =
                           Send([q EXCEPT !.updata = data], 200, "", "", "",
                                ComparisonOnly(data))]
              /\ UNCHANGED log
         ELSE /\ log' = log \cup {[r |-> r, text |-> ErrText(kind, body)]}
              /\ req' = [req EXCEPT ![r] =
                           Send(q, 500, "Error comparing documents", "", "", "")]
  /\ UNCHANGED <<disk, session, upstream, now>>

\* ------------------------------------------------ GET /healthz, /readyz
\* what the upstream answers to GET /healthz: 200, another 2xx status, a
\* status axios rejects, no connection, or nothing within the timeout
HealthKinds == Kinds \cup {"other2xx"}

\* the copies of the two probes: the gateway's and server.js's
HealthCopies == {"session", "legacy"}

\* a readiness test that takes every fulfilled call for a healthy upstream
ReadyAny2xx(kind) == kind \in {"ok", "other2xx"}

\* response.status === 200, for a call that was fulfilled
Ready(kind) == kind = "ok"

\* error.message in the catch of /readyz
ReadyzErrMessage(kind) ==
  CASE kind = "other2xx" -> "RAG service returned non-200 status"
    [] kind = "non2xx" -> "Request failed with status code"
    [] OTHER -> ErrText(kind, "")

\* the liveness probe answers by itself
Healthz(r, copy) ==
  /\ req[r].pc = "idle"
  /\ req' = [req EXCEPT ![r] =
               Send([req[r] EXCEPT !.route = "healthz", !.copy = copy, !.pc = "done"],
                    200, "", "", "", "healthy")]
  /\ UNCHANGED <<disk, session, upstream, log, now>>

\* axios.get(`${RAG_URL}/healthz`, {timeout: HEALTH_CHECK_TIMEOUT_MS})
ReadyzStart(r, copy) ==
  /\ req[r].pc = "idle"
  /\ LET q == [req[r] EXCEPT !.route = "readyz", !.copy = copy]
     IN  /\ upstream' = upstream \cup {Call(r, "/healthz", q)}
         /\ req' = [req EXCEPT ![r] = [q EXCEPT !.calls = 1, !.pc = "awaiting"]]
  /\ UNCHANGED <<disk, session, log, now>>

\* the call settles: 200 for status 200; the throw for another status and
\* every rejection end in the catch, which answers 503 (the gateway logs
\* error.message first)
ReadyzReturn(r, kind) ==
  /\ req[r].pc = "awaiting"
  /\ req[r].route = "readyz"
  /\ LET q == [req[r] EXCEPT !.kind = kind, !.pc = "done"]
     IN  IF Ready(kind)
         THEN /\ req' = [req EXCEPT ![r] = Send(q, 200, "", "", "", "ready")]
              /\ UNCHANGED log
         ELSE /\ req' = [req EXCEPT ![r] =
                           Send(q, 503,
                                IF q.copy = "legacy" THEN "Cannot reach RAG service" ELSE "",
                                "", "", "not ready")]
              /\ log' = IF q.copy = "legacy" THEN log
                        ELSE log \cup {[r |-> r, text |-> ReadyzErrMessage(kind)]}
  /\ UNCHANGED <<disk, session, upstream, now>>

\* --------------------------------------------------------------- frontend
\* App.js.  An event handler runs to its first await, and the rest of it
\* when the request settles; the effects of a render run with it.
\* the persist effects: each writes its state when that state has changed
Persist(u, store) ==
  [store EXCEPT !.chatHistory = Item(StringifyChat(u.chatHistory)),
                !.pdfs = Item(Stringify(u.pdfs))]

\* the page is opened: the first render with the initial state (darkMode
\* from storage), then its effects in the order of their declaration: the
\* theme is written, the saved values are read and their setState queued,
\* the initial chatHistory and pdfs are written
Mount ==
  /\ ui.phase = "closed"
  /\ LET darkMode == IF localStorage.theme # NoItem
                     THEN Parse(ItemOf(localStorage.theme)) ELSE FALSE
         u == [Closed EXCEPT
                 !.phase = "mounted", !.darkMode = darkMode,
                 !.heldChat = ui.heldChat, !.heldPdfs = ui.heldPdfs,
                 !.loadedChat = IF localStorage.chatHistory # NoItem
                                THEN Item(ParseChat(ItemOf(localStorage.chatHistory)))
                                ELSE NoItem,
                 !.loadedPdfs = IF localStorage.pdfs # NoItem
                                THEN Item(Parse(ItemOf(localStorage.pdfs)))
                                ELSE NoItem]
     IN  /\ ui' = u
         /\ localStorage' =
              Persist(u, [localStorage EXCEPT !.theme = Item(Stringify(darkMode))])
  /\ UNCHANGED gvars

\* the render after the queued setChatHistory and setPdfs, and its effects
Rerender ==
  /\ ui.phase = "mounted"
  /\ LET u == [ui EXCEPT
                 !.phase = "ready",
                 !.chatHistory = IF ui.loadedChat # NoItem THEN ItemOf(ui.loadedChat) ELSE @,
                 !.pdfs = IF ui.loadedPdfs # NoItem THEN ItemOf(ui.loadedPdfs) ELSE @,
                 !.loadedChat = NoItem, !.loadedPdfs = NoItem,
                 !.heldChat = <<>>, !.heldPdfs = <<>>]
     IN  /\ ui' = u
         /\ localStorage' = Persist(u, localStorage)
  /\ UNCHANGED gvars

\* the page is closed or reloaded: its state and its requests are gone
Close ==
  /\ ui.phase # "closed"
  /\ ui' = IF ui.phase = "ready"
           THEN [Closed EXCEPT !.heldChat = ui.chatHistory, !.heldPdfs = ui.pdfs]
           ELSE [Closed EXCEPT !.heldChat = ui.heldChat, !.heldPdfs = ui.heldPdfs]
  /\ UNCHANGED localStorage
  /\ UNCHANGED gvars

\* an event handler or a continuation that sets the state to u
Handle(u) ==
  /\ ui.phase = "ready"
  /\ ui' = u
  /\ localStorage' = Persist(u, localStorage)
  /\ UNCHANGED gvars

\* one more, one fewer request of kind k in flight
Sending(p, k) == [p EXCEPT ![k] = @ + 1]
Settled(p, k) == [p EXCEPT ![k] = @ - 1]

\* <Form.Control type="file" onChange>
PickFile == ~ui.file /\ Handle([ui EXCEPT !.file = TRUE])

\* uploadPDF, from the Upload button (disabled={!file || uploading})
UploadClick ==
  /\ ui.file /\ ~ui.uploading
  /\ Handle([ui EXCEPT !.uploading = TRUE, !.pending = Sending(@, "upload")])

\* uploadPDF after the await: the document is appended, or the catch
UploadDone ==
  /\ ui.pending["upload"] > 0
  /\ \E ok \in BOOLEAN :
       LET id == Len(ui.pdfs) + 1
           u == [ui EXCEPT !.uploading = FALSE, !.pending = Settled(@, "upload")]
       IN  IF ok /\ id \in DocIds
           THEN Handle([u EXCEPT !.pdfs = Append(@, [session_id |-> id]),
                                 !.file = FALSE])
           ELSE Handle(u)

\* prev.includes(id) ? prev.filter(x => x !== id) : [...prev, id]
Toggled(prev, id) ==
  IF \E i \in 1..Len(prev) : prev[i] = id
  THEN SelectSeq(prev, LAMBDA x : x # id)
  ELSE Append(prev, id)

\* toggleDocSelection, from the checkbox of a listed document
ToggleDocSelection(id) ==
  /\ \E i \in 1..Len(ui.pdfs) : ui.pdfs[i].session_id = id
  /\ Handle([ui EXCEPT !.comparisonResult = Null,
                        !.selectedSessions = Toggled(@, id)])

\* <Form.Control onChange={(e) => setQuestion(e.target.value)}>
TypeQuestion == ui.question = "" /\ Handle([ui EXCEPT !.question = "q1"])

\* askQuestion to its await
AskQuestion ==
  /\ ui.question # "" /\ Len(ui.selectedSessions) # 0
  /\ Len(ui.chatHistory) < MaxChat /\ ui.pending["ask"] < MaxPending
  /\ Handle([ui EXCEPT !.chatHistory = Append(@, [role |-> "user", text |-> ui.question]),
                        !.question = "", !.asking = TRUE,
                        !.pending = Sending(@, "ask")])

\* the Ask button (disabled={asking})
AskClick == ~ui.asking /\ AskQuestion

\* Enter in the question input: onKeyDown calls askQuestion()
AskEnter == AskQuestion

\* askQuestion after the await: res.data.answer, or the catch
AskDone ==
  /\ ui.pending["ask"] > 0
  /\ \E text \in {"a1", Undefined, "Error getting answer."} :
       Handle([ui EXCEPT !.chatHistory = Append(@, [role |-> "bot", text |-> text]),
                         !.asking = FALSE, !.pending = Settled(@, "ask")])

\* summarizePDF to its await, from the Summarize button (never disabled)
SummarizeClick ==
  /\ Len(ui.selectedSessions) # 0
  /\ ui.pending["summarize"] < MaxPending
  /\ Handle([ui EXCEPT !.summarizing = TRUE, !.pending = Sending(@, "summarize")])

\* summarizePDF after the await
SummarizeDone ==
  /\ ui.pending["summarize"] > 0
  /\ \E ok \in BOOLEAN :
       LET u == [ui EXCEPT !.summarizing = FALSE, !.pending = Settled(@, "summarize")]
       IN  IF ok /\ Len(ui.chatHistory) < MaxChat + MaxPending
           THEN Handle([u EXCEPT !.chatHistory = Append(@, [role |-> "bot", text |-> "s1"])])
           ELSE Handle(u)

\* compareDocuments to its await, from the Compare button (never disabled)
CompareClick ==
  /\ ~(Len(ui.selectedSessions) < 2)
  /\ ui.pending["compare"] < MaxPending
  /\ Handle([ui EXCEPT !.comparing = TRUE, !.pending = Sending(@, "compare")])

\* compareDocuments after the await
CompareDone ==
  /\ ui.pending["compare"] > 0
  /\ \E ok \in BOOLEAN :
       LET u == [ui EXCEPT !.comparing = FALSE, !.pending = Settled(@, "compare")]
       IN  Handle(IF ok THEN [u EXCEPT !.comparisonResult = "c1"] ELSE u)

\* the Dark switch, and the theme effect of its render
ToggleDark ==
  /\ ui.phase = "ready"
  /\ ui' = [ui EXCEPT !.darkMode = ~@]
  /\ localStorage' = [localStorage EXCEPT !.theme = Item(Stringify(~ui.darkMode))]
  /\ UNCHANGED gvars

\* the Clear History button: the three lists are emptied and
\* localStorage.clear() removes every key; the effects of the render write
\* the emptied chatHistory and pdfs
ClearClick ==
  /\ ui.phase = "ready"
  /\ LET u == [ui EXCEPT !.chatHistory = <<>>, !.pdfs = <<>>, !.selectedSessions = <<>>]
     IN  /\ ui' = u
         /\ localStorage' = Persist(u, NoStorage)
  /\ UNCHANGED gvars

\* selectedPdfs.length === 2: the Comparison Mode row is rendered
SelectedPdfs ==
  SelectSeq(ui.pdfs, LAMBDA p : \E i \in 1..Len(ui.selectedSessions) :
                                  ui.selectedSessions[i] = p.session_id)
ComparisonMode == ui.phase = "ready" /\ Len(SelectedPdfs) = 2

\* ------------------------------------------------- limiter middleware
\* the process runs the gateway of DocumentUploader.jsx (its limiters), or
\* server.js (the limiters of rateLimiter.js, or none)
RunsGateway == "ask" \in DOMAIN limiters /\ ~limiters["ask"].custom
RunsServer == ~RunsGateway

\* an increment that never reopens a window: every request after a
\* client's first is counted in the window its first one opened
IncrementKeepsWindow(lim, ip, t) ==
  [totalHits |-> lim.hits[ip].totalHits + 1,
   resetTime |-> IF lim.hits[ip].totalHits = 0 THEN t + lim.windowMs
                 ELSE lim.hits[ip].resetTime]

\* an increment under one key for all clients: the request is counted on
\* top of the highest count any client has
IncrementSharedKey(lim, ip, t) ==
  LET k == CHOOSE k \in IPs : \A j \in IPs : lim.hits[k].totalHits >= lim.hits[j].totalHits
  IN  IF lim.hits[k].totalHits = 0 \/ lim.hits[k].resetTime <= t
      THEN [totalHits |-> 1, resetTime |-> t + lim.windowMs]
      ELSE [lim.hits[k] EXCEPT !.totalHits = @ + 1]

\* the store's increment for the key ip at time t: the first request of a
\* client, or its first after its window has ended, opens a window of
\* windowMs that counts it; any other is counted in the open window
Increment(lim, ip, t) ==
  IF lim.hits[ip].totalHits = 0 \/ lim.hits[ip].resetTime <= t
  THEN [totalHits |-> 1, resetTime |-> t + lim.windowMs]
  ELSE [lim.hits[ip] EXCEPT !.totalHits = @ + 1]

\* the values the Retry-After header of a 429 takes: the handler of
\* rateLimiter.js sets Math.ceil(options.windowMs / 1000); without a handler
\* the library sets the header, to the same value or, in its later
\* versions, to the seconds left until resetTime
RetryAfterValues(lim, entry, t) ==
  IF lim.custom
  THEN { Ceil(lim.windowMs, 1000) }
  ELSE { Ceil(lim.windowMs, 1000), Ceil(entry.resetTime - t, 1000) }

\* the requests the client ip has sent to class l
Sent(l, ip) == results[l][ip].passed + results[l][ip].limited

\* whether the client sends one more to a limited route: it stops at MaxOver
\* requests over the limit in an open window
MaySend(l, ip) ==
  \/ limiters[l].hits[ip].resetTime <= clock.ms
  \/ limiters[l].hits[ip].totalHits < limiters[l].max + MaxOver

\* whether the client sends one more to a route without limiter: it stops at
\* MaxOver requests over the limit of the class, or at the test's count
MaySendFreely(l, ip) ==
  Sent(l, ip) < (IF l \in DOMAIN limiters THEN limiters[l].max + MaxOver
                 ELSE IF l = "global" THEN GLOBAL_LIMIT + MaxOver
                 ELSE TEST_REQUEST_COUNT)

Count(l, ip, passed) ==
  [results EXCEPT ![l][ip] =
     IF passed THEN [@ EXCEPT !.passed = @ + 1] ELSE [@ EXCEPT !.limited = @ + 1]]

\* a route without limiter: the handler runs
NoLimit(l, ip, Handler) ==
  /\ MaySendFreely(l, ip)
  /\ Handler
  /\ results' = Count(l, ip, TRUE)
  /\ UNCHANGED <<limiters, clock, ui, localStorage>>

\* app.post(route, limiter, handler): the limiter counts the request; over
\* max it answers 429 with Retry-After and the handler does not run
Limit(l, ip, r, Handler) ==
  /\ MaySend(l, ip)
  /\ req[r].pc = "idle"
  /\ LET lim == limiters[l]
         entry == Increment(lim, ip, clock.ms)
     IN  /\ limiters' = [limiters EXCEPT ![l].hits[ip] = entry]
         /\ IF entry.totalHits > lim.max
            THEN /\ \E secs \in RetryAfterValues(lim, entry, clock.ms) :
                      req' = [req EXCEPT ![r] =
                                [Send([req[r] EXCEPT !.route = l, !.copy = "limiter",
                                                     !.ip = ip, !.pc = "done"],
                                      429, "Too Many Requests", "", "", "")
                                   EXCEPT !.resp.retryAfter = secs]]
                 /\ results' = Count(l, ip, FALSE)
                 /\ UNCHANGED <<disk, session, upstream, log, now>>
            ELSE /\ Handler
                 /\ results' = Count(l, ip, TRUE)
  /\ UNCHANGED <<clock, ui, localStorage>>

\* a route of the gateway with its limiter
GatewayLimit(l, ip, r, Handler) == RunsGateway /\ Limit(l, ip, r, Handler)

\* a route of the gateway that names no limiter
GatewayNoLimit(l, ip, Handler) == RunsGateway /\ NoLimit(l, ip, Handler)

\* a route of server.js: with the limiter of its class where rateLimiter.js
\* is mounted, without any otherwise
ServerLimit(l, ip, r, Handler) ==
  /\ RunsServer
  /\ IF l \in DOMAIN limiters THEN Limit(l, ip, r, Handler)
     ELSE NoLimit(l, ip, Handler)

\* time passes
Advance(d) ==
  /\ clock.advances < MaxAdvances
  /\ clock' = [ms |-> clock.ms + d, advances |-> clock.advances + 1]
  /\ UNCHANGED <<req, disk, session, upstream, log, now, limiters, results>>
  /\ UNCHANGED fvars

\* the advances of the clock: a tick, or the window of a limiter
Advances == {TickMs} \cup { limiters[l].windowMs : l \in DOMAIN limiters }

\* the client of a completed request is gone: its slot serves the next
\* request, whose upstream calls are counted anew
Forget(r) ==
  /\ Completed(r)
  /\ req' = [req EXCEPT ![r] = Idle]
  /\ upstream' = { c \in upstream : c.r # r }
  /\ UNCHANGED <<disk, session, log, now, limiters, clock, results>>
  /\ UNCHANGED fvars

\* a handler of a specification with fewer requests than any limit: every
\* limiter passes them, and their count is not kept
Unlimited(Handler) == Handler /\ UNCHANGED lvars /\ UNCHANGED fvars

\* ------------------------------------------------------------ specifications
NextUpload ==
  \/ \E r \in Reqs, c \in Cookies, hasFile \in BOOLEAN, name \in OrigNames,
        mime \in MimeTypes, t \in Times :
        Unlimited(UploadSessionStart(r, c, hasFile, name, mime, t))
  \/ \E r \in Reqs, kind \in Kinds, id \in UpIds, body \in ErrBodies :
        Unlimited(UploadSessionReturn(r, kind, id, body))
  \/ \E r \in Reqs, c \in Cookies, hasFile \in BOOLEAN, name \in OrigNames,
        mime \in MimeTypes, t \in Times :
        Unlimited(UploadNoCheckStart(r, c, hasFile, name, mime, t))
  \/ \E r \in Reqs, kind \in Kinds, id \in UpIds, body \in ErrBodies :
        Unlimited(UploadNoCheckReturn(r, kind, id, body))
  \/ \E r \in Reqs, hasFile \in BOOLEAN, name \in OrigNames,
        mime \in MimeTypes, t \in Times, usesDest \in BOOLEAN :
        Unlimited(UploadProcessPdfStart(r, hasFile, name, mime, t, usesDest))
  \/ \E r \in Reqs, kind \in Kinds, id \in UpIds, body \in ErrBodies :
        Unlimited(UploadProcessPdfReturn(r, kind, id, body))
  \/ \E r \in Reqs, hasFile \in BOOLEAN, mime \in MimeTypes :
        Unlimited(UploadLegacyStart(r, hasFile, mime))
  \/ \E r \in Reqs, kind \in Kinds, id \in UpIds :
        Unlimited(UploadLegacyReturn(r, kind, id))
  \/ \E r \in Reqs : Unlimited(UnlinkCallback(r))

NextQuery ==
  \/ \E r \in Reqs, question \in Questions, sids \in SessionIdLists :
        Unlimited(AskRelayStart(r, question, sids))
  \/ \E r \in Reqs, kind \in Kinds, data \in UpData, body \in ErrBodies :
        Unlimited(AskRelayReturn(r, kind, data, body))
  \/ \E r \in Reqs, c \in Cookies, question \in Questions, sids \in SessionIdLists :
        Unlimited(AskHistoryStart(r, c, question, sids))
  \/ \E r \in Reqs, kind \in Kinds, body \in ErrBodies :
        Unlimited(AskHistoryFirstReturn(r, kind, body))
  \/ \E r \in Reqs, kind \in Kinds, data \in UpData, body \in ErrBodies :
        Unlimited(AskHistorySecondReturn(r, kind, data, body))
  \/ \E r \in Reqs, question \in Questions, sids \in SessionIdLists :
        Unlimited(AskLegacyStart(r, question, sids))
  \/ \E r \in Reqs, kind \in Kinds, data \in UpData :
        Unlimited(AskLegacyReturn(r, kind, data))
  \/ \E r \in Reqs, sids \in SessionIdLists : Unlimited(SummarizeRelayStart(r, sids))
  \/ \E r \in Reqs, kind \in Kinds, data \in UpData, body \in ErrBodies :
        Unlimited(SummarizeRelayReturn(r, kind, data, body))
  \/ \E r \in Reqs, sids \in SessionIdLists : Unlimited(SummarizeLegacyStart(r, sids))
  \/ \E r \in Reqs, kind \in Kinds, data \in UpData :
        Unlimited(SummarizeLegacyReturn(r, kind, data))
  \/ \E r \in Reqs, sids \in SessionIdLists : Unlimited(CompareRelayStart(r, sids))
  \/ \E r \in Reqs, kind \in Kinds, data \in UpData, body \in ErrBodies :
        Unlimited(CompareRelayReturn(r, kind, data, body))
  \/ \E r \in Reqs, sids \in SessionIdLists : Unlimited(CompareLegacyStart(r, sids))
  \/ \E r \in Reqs, kind \in Kinds, data \in UpData, body \in ErrBodies :
        Unlimited(CompareLegacyReturn(r, kind, data, body))

Next == NextUpload \/ NextQuery

Spec == Init /\ [][Next]_vars

\* the upload relay alone
SpecUpload == Init /\ [][NextUpload]_vars

\* the query relays alone
SpecQuery == Init /\ [][NextQuery]_vars

\* the handlers that read or write the chat history of a session; the
\* questions asked are about one document or name none
HistorySessionIdLists == { l \in SessionIdLists : Len(l.ids) < 2 /\ (l.def => l.ids # <<>>) }

NextHistory ==
  \/ \E r \in Reqs, c \in Cookies, question \in Questions,
        sids \in HistorySessionIdLists :
        Unlimited(AskHistoryStart(r, c, question, sids))
  \/ \E r \in Reqs, kind \in Kinds, body \in ErrBodies :
        Unlimited(AskHistoryFirstReturn(r, kind, body))
  \/ \E r \in Reqs, kind \in Kinds, data \in UpData, body \in ErrBodies :
        Unlimited(AskHistorySecondReturn(r, kind, data, body))
  \/ \E r \in Reqs, c \in Cookies : Unlimited(ClearHistory(r, c))

SpecHistory == Init /\ [][NextHistory]_vars

\* the continuation of request r's pending upstream call in a query handler
QueryReturn(r) ==
  \E kind \in Kinds, data \in UpData, body \in ErrBodies :
    Unlimited(\/ AskRelayReturn(r, kind, data, body)
              \/ AskHistoryFirstReturn(r, kind, body)
              \/ AskHistorySecondReturn(r, kind, data, body)
              \/ AskLegacyReturn(r, kind, data)
              \/ SummarizeRelayReturn(r, kind, data, body)
              \/ SummarizeLegacyReturn(r, kind, data)
              \/ CompareRelayReturn(r, kind, data, body)
              \/ CompareLegacyReturn(r, kind, data, body))

\* every axios call settles (the upstream answers, the connection fails or the
\* timeout fires) and the event loop then resumes the awaiting handler
FairSpecQuery == SpecQuery /\ \A r \in Reqs : WF_vars(QueryReturn(r))

\* the test's client and the body it posts: { question: 'test' }
TestClient == "ip1"
OtherClient == "ip2"
TestQuestion == "q1"
TestSessionIds == [def |-> FALSE, ids |-> <<>>]

\* the test's POST /ask behind the limiter, in the gateway and in server.js,
\* while the upstream answers
NextAskLimiter ==
  \/ \E r \in Reqs :
        GatewayLimit("ask", TestClient, r,
                     AskRelayStart(r, TestQuestion, TestSessionIds))
  \/ \E r \in Reqs :
        ServerLimit("ask", TestClient, r,
                    AskLegacyStart(r, TestQuestion, TestSessionIds))
  \/ \E r \in Reqs : Unlimited(AskLegacyReturn(r, "ok", "d1"))
  \/ \E r \in Reqs : Forget(r)
  \/ \E d \in Advances : Advance(d)

SpecAskLimiter == InitLimiter /\ [][NextAskLimiter]_vars

\* POST /upload of the gateway by one client: the handler behind
\* uploadLimiter and the copy that names no limiter, while the upstream
\* answers
NextUploadLimiter ==
  \/ \E r \in Reqs :
        GatewayLimit("upload", TestClient, r,
                     UploadSessionStart(r, "A", TRUE, <<Seg("a.pdf")>>, PDF_MIME, 1))
  \/ \E r \in Reqs : Unlimited(UploadSessionReturn(r, "ok", "s1", "e1"))
  \/ \E r \in Reqs :
        GatewayNoLimit("upload", TestClient,
                       UploadProcessPdfStart(r, TRUE, <<Seg("a.pdf")>>, PDF_MIME, 1, TRUE))
  \/ \E r \in Reqs : Unlimited(UploadProcessPdfReturn(r, "ok", "s1", "e1"))
  \/ \E r \in Reqs : Unlimited(UnlinkCallback(r))
  \/ \E r \in Reqs : Forget(r)
  \/ \E d \in Advances : Advance(d)

SpecUploadLimiter == Init /\ [][NextUploadLimiter]_vars

\* TestClient has sent /ask as many requests as its limiter allows in one
\* window (as many as the test's limit where /ask has no limiter)
Flooded ==
  Sent("ask", TestClient) >=
    (IF "ask" \in DOMAIN limiters THEN limiters["ask"].max ELSE ASK_RATE_LIMIT)

\* the clients: TestClient floods /ask; after that it sends at most MaxLight
\* requests to each other class, and every other client at most MaxLight
\* to each class
Floods(l, ip) ==
  \/ l = "ask" /\ ip = TestClient
  \/ Flooded /\ Sent(l, ip) < MaxLight

\* the limited routes under requests of two clients to three classes within
\* one window: /ask by both, /summarize by TestClient, /upload by the other
NextLimiterKeys ==
  \/ \E r \in Reqs, ip \in IPs :
        /\ Floods("ask", ip)
        /\ GatewayLimit("ask", ip, r, AskRelayStart(r, TestQuestion, TestSessionIds))
  \/ \E r \in Reqs :
        /\ Floods("summarize", TestClient)
        /\ GatewayLimit("summarize", TestClient, r,
                        SummarizeRelayStart(r, TestSessionIds))
  \/ \E r \in Reqs :
        /\ Floods("upload", OtherClient)
        /\ GatewayLimit("upload", OtherClient, r,
                        UploadSessionStart(r, "A", FALSE, <<Seg("a.pdf")>>, PDF_MIME, 1))
  \/ \E r \in Reqs, ip \in IPs :
        /\ Floods("ask", ip)
        /\ ServerLimit("ask", ip, r, AskLegacyStart(r, TestQuestion, TestSessionIds))
  \/ \E r \in Reqs :
        /\ Floods("summarize", TestClient)
        /\ ServerLimit("summarize", TestClient, r,
                       SummarizeLegacyStart(r, TestSessionIds))
  \/ \E r \in Reqs : Unlimited(AskLegacyReturn(r, "ok", "d1"))
  \/ \E r \in Reqs : Unlimited(SummarizeLegacyReturn(r, "ok", "d1"))
  \/ \E r \in Reqs : Forget(r)

SpecLimiterKeys == InitLimiter /\ [][NextLimiterKeys]_vars

\* the two probes of the gateway and of server.js, while the upstream
\* answers its health check or fails to
NextHealth ==
  \/ \E r \in Reqs, copy \in HealthCopies : Unlimited(Healthz(r, copy))
  \/ \E r \in Reqs, copy \in HealthCopies : Unlimited(ReadyzStart(r, copy))
  \/ \E r \in Reqs, kind \in HealthKinds : Unlimited(ReadyzReturn(r, kind))

SpecHealth == Init /\ [][NextHealth]_vars

\* the routes that have no limiter of their own, under the requests of one
\* client within the global window: /clear-history of the gateway, which
\* mounts no global limiter, and /healthz of server.js
NextBackstop ==
  \/ \E r \in Reqs : GatewayNoLimit("global", TestClient, ClearHistory(r, "A"))
  \/ \E r \in Reqs : ServerLimit("global", TestClient, r, Healthz(r, "legacy"))
  \/ \E r \in Reqs : Forget(r)

SpecBackstop == InitBackstop /\ [][NextBackstop]_vars

\* the page: documents are uploaded and selected, and compared
NextSelection ==
  \/ Mount \/ Rerender
  \/ PickFile \/ UploadClick \/ UploadDone
  \/ \E id \in DocIds : ToggleDocSelection(id)
  \/ CompareClick \/ CompareDone

SpecSelection == Init /\ [][NextSelection]_vars

\* the page over its lifetimes: it is opened, used (a document, a question,
\* the theme, Clear History) and closed
NextPersistence ==
  \/ Mount \/ Rerender \/ Close
  \/ PickFile \/ UploadClick \/ UploadDone
  \/ ToggleDocSelection(1)
  \/ TypeQuestion \/ AskClick \/ AskDone
  \/ ToggleDark \/ ClearClick

SpecPersistence == Init /\ [][NextPersistence]_vars

\* the page under clicks and key presses while its requests are pending
NextClicks ==
  \/ Mount \/ Rerender
  \/ PickFile \/ UploadClick \/ UploadDone
  \/ \E id \in DocIds : ToggleDocSelection(id)
  \/ TypeQuestion \/ AskClick \/ AskEnter \/ AskDone
  \/ SummarizeClick \/ SummarizeDone
  \/ CompareClick \/ CompareDone

SpecClicks == Init /\ [][NextClicks]_vars

\* ---------------------------------------------------------------- claims
\* request r has sent the client a response
Responded(r) == req[r].sent > 0

\* the calls issued upstream on behalf of request r
CallsOf(r) == { c \in upstream : c.r = r }

\* C1: every POST /upload whose file was stored and that reached the upstream
\* call has its temporary file absent from the disk once the request is
\* complete, whatever the upstream answered.
C1_TempFileAbsentAfterUpload ==
  \A r \in Reqs :
    (req[r].route = "upload" /\ req[r].stored /\ req[r].calls > 0 /\ Completed(r))
      => ~OnDisk(r)

C3_ReleasedBeforeResponse ==
  \A r \in Reqs :
    (req[r].route = "upload" /\ req[r].kind \in Kinds /\ Responded(r))
      => (req[r].stream # "open" /\ ~OnDisk(r))

C5_NoFileIsClientError ==
  \A r \in Reqs :
    (req[r].route = "upload" /\ ~req[r].hasFile /\ req[r].pc # "idle")
      => /\ CallsOf(r) = {}
         /\ Responded(r)
         /\ req[r].resp.status = 400

\* C6: a POST /upload whose file is not a PDF is answered 400, and no non-PDF
\* file is ever sent to the upstream service.
C6_OnlyPdfForwarded ==
  /\ \A r \in Reqs :
       (req[r].route = "upload" /\ req[r].stored /\ req[r].mimetype # PDF_MIME)
         => (CallsOf(r) = {} /\ (Responded(r) => req[r].resp.status = 400))
  /\ \A c \in upstream :
       c.url \in {"/upload", "/process-pdf"} => c.mimetype = PDF_MIME

\* C7: a failed POST /upload tells the failure kinds apart: connection refused
\* is answered 503 "RAG service unavailable", a timeout a generic 500.
C7_RefusedIs503TimeoutIs500 ==
  \A r \in Reqs :
    (req[r].route = "upload" /\ Responded(r))
      => /\ req[r].kind = "refused"
              => (req[r].resp.status = 503
                    /\ req[r].resp.error = "RAG service unavailable")
         /\ req[r].kind = "timeout" => req[r].resp.status = 500

\* two requests that are the same request answered by the same kind of
\* upstream failure: they differ at most in the upstream's error body
SameButErrorBody(r1, r2) ==
  /\ req[r1].route = req[r2].route
  /\ req[r1].copy = req[r2].copy
  /\ req[r1].cookie = req[r2].cookie
  /\ req[r1].hasFile = req[r2].hasFile
  /\ req[r1].mimetype = req[r2].mimetype
  /\ req[r1].origname = req[r2].origname
  /\ req[r1].question = req[r2].question
  /\ req[r1].sids = req[r2].sids
  /\ req[r1].kind = req[r2].kind
  /\ req[r1].kind \in Kinds \ {"ok"}

\* C8: for upload, ask, summarize and compare the error response carries
\* nothing of the upstream's error body: no field of it is that body, and two
\* requests that differ only in the upstream's error body get the same
\* response.
C8_NoUpstreamBodyInResponse ==
  /\ \A r \in Reqs :
       /\ req[r].resp.error \notin ErrBodies
       /\ req[r].resp.details \notin ErrBodies
       /\ req[r].resp.data \notin ErrBodies
  /\ \A r1, r2 \in Reqs :
       (SameButErrorBody(r1, r2) /\ Completed(r1) /\ Completed(r2))
         => req[r1].resp = req[r2].resp

\* the step in which the upload handler of r resumes after its upstream call
UploadSettles(r) ==
  /\ req[r].route = "upload"
  /\ req[r].pc = "awaiting"
  /\ req'[r].pc # "awaiting"

\* C9: a successful POST /upload returns and stores exactly the identifier the
\* upstream issued for it and empties the caller's chat history; a failed one
\* leaves the caller's session as it was; no other identifier is ever
\* returned.
C9_UploadBindsIssuedId ==
  [][\A r \in Reqs :
       UploadSettles(r) =>
         IF req'[r].kind = "ok"
         THEN /\ req'[r].resp.session_id = req'[r].issued
              /\ session'[req[r].cookie] =
                   [currentSessionId |-> req'[r].issued, chatHistory |-> <<>>]
         ELSE /\ session' = session
              /\ req'[r].resp.session_id = ""]_vars

\* C10: POST /ask with a missing or empty question or session_ids, and POST
\* /summarize with a missing or empty session_ids, are answered 400 and issue
\* no upstream call.
C10_ValidationBeforeCall ==
  \A r \in Reqs :
    ( /\ req[r].pc # "idle"
      /\ \/ req[r].route = "ask"
              /\ (Falsy(req[r].question) \/ ~req[r].sids.def \/ req[r].sids.ids = <<>>)
         \/ req[r].route = "summarize"
              /\ (~req[r].sids.def \/ req[r].sids.ids = <<>>) )
      => /\ CallsOf(r) = {}
         /\ Responded(r)
         /\ req[r].resp.status = 400

\* C11: POST /compare with fewer than two identifiers in session_ids is
\* answered 400 and issues no upstream call; with two or more the request is
\* forwarded, and when the upstream succeeds the response carries the
\* upstream's comparison field.
C11_CompareNeedsTwoIds ==
  \A r \in Reqs :
    (req[r].route = "compare" /\ req[r].pc # "idle")
      => IF ~req[r].sids.def \/ Len(req[r].sids.ids) < 2
         THEN /\ CallsOf(r) = {}
              /\ Responded(r)
              /\ req[r].resp.status = 400
         ELSE /\ CallsOf(r) # {}
              /\ (Completed(r) /\ req[r].kind = "ok")
                   => /\ Responded(r)
                      /\ req[r].resp.status = 200
                      /\ ComparisonField(req[r].resp.data)
                           = ComparisonField(req[r].updata)

\* the request body of r passes the validation its route is specified to make
ValidQuery(r) ==
  /\ req[r].sids.def
  /\ CASE req[r].route = "ask" ->
             ~Falsy(req[r].question) /\ Len(req[r].sids.ids) > 0
        [] req[r].route = "summarize" -> Len(req[r].sids.ids) > 0
        [] req[r].route = "compare" -> Len(req[r].sids.ids) >= 2
        [] OTHER -> FALSE

\* C12: a POST /ask or POST /summarize with valid input whose upstream call
\* succeeded has sent exactly one response, and its body is the upstream's
\* body with nothing added, removed or changed.
C12_SuccessBodyRelayedUnchanged ==
  \A r \in Reqs :
    ( /\ req[r].route \in {"ask", "summarize"}
      /\ ValidQuery(r)
      /\ Completed(r)
      /\ req[r].kind = "ok" )
      => /\ req[r].sent = 1
         /\ req[r].resp = [NoResp EXCEPT !.status = 200, !.data = req[r].updata]

\* C13: a POST /ask, /summarize or /compare with valid input whose upstream
\* call failed (non-2xx, refused or timeout) eventually has a response, and
\* that response is a 500.
C13_FailureEventuallyGets500 ==
  \A r \in Reqs :
    ( /\ req[r].route \in {"ask", "summarize", "compare"}
      /\ ValidQuery(r)
      /\ req[r].kind \in Kinds \ {"ok"} )
      ~> (Responded(r) /\ req[r].resp.status = 500)

\* C14: for every request to /upload, /ask, /summarize or /compare at most
\* one call is issued to the upstream service.
C14_AtMostOneUpstreamCall ==
  \A r \in Reqs :
    req[r].route \in {"upload", "ask", "summarize", "compare"}
      => Cardinality(CallsOf(r)) <= 1

\* the step in which a POST /ask is completed after its upstream call succeeded
AskSettlesOk(r) ==
  /\ req[r].route = "ask"
  /\ ~Completed(r)
  /\ req'[r].pc = "done"
  /\ req'[r].kind = "ok"

\* C15: when a POST /ask succeeds in a session whose chat history was H when
\* the request arrived, the session's chat history is H followed by the user
\* question and then the assistant answer, and nothing else.
C15_AskAppendsQuestionThenAnswer ==
  [][\A r \in Reqs :
       AskSettlesOk(r) =>
         session'[req[r].cookie].chatHistory =
           req[r].h0 \o << [role |-> "user", content |-> req[r].question],
                           [role |-> "assistant",
                            content |-> AnswerField(req'[r].updata)] >>]_vars

\* the step in which request r is a POST /clear-history being handled
ClearHistoryStep(r) ==
  /\ req[r].pc = "idle"
  /\ req'[r].route = "clear-history"

\* C16: POST /clear-history empties the chat history of the caller's session
\* and leaves every other session exactly as it was before the call.
C16_ClearHistoryOnlyCaller ==
  [][\A r \in Reqs :
       ClearHistoryStep(r) =>
         /\ session'[req'[r].cookie].chatHistory = <<>>
         /\ \A b \in Cookies \ {req'[r].cookie} : session'[b] = session[b]]_vars

\* a session has cleared its history while the other session holds messages
C16_Witness ==
  \E r1, r2 \in Reqs :
    /\ req[r1].route = "clear-history"
    /\ Completed(r1)
    /\ req[r2].route = "ask"
    /\ req[r2].cookie # req[r1].cookie
    /\ session[req[r2].cookie].chatHistory # <<>>
    /\ session[req[r1].cookie].chatHistory = <<>>

\* C17: once the test's client has sent ASK_RATE_LIMIT + 1 requests to /ask
\* within one rate-limit window, at least one of them was answered 429, and
\* every 429 carries a Retry-After header.
C17_TestGets429WithRetryAfter ==
  /\ (clock.ms < QUERY_WINDOW_MS /\ Sent("ask", TestClient) >= TEST_REQUEST_COUNT)
       => results["ask"][TestClient].limited >= 1
  /\ \A r \in Reqs : req[r].resp.status = 429 => req[r].resp.retryAfter > 0

\* the step in which request r arrives and is answered 429
Rejects(r) == req[r].pc = "idle" /\ req'[r].resp.status = 429

\* C18: for every class that has a limiter and every client IP, at most max
\* requests of one window get past the limiter, and a request answered 429
\* causes no upstream call, stores no file and changes no session.
C18_AtMostMaxPassPerWindow ==
  [][ /\ \A l \in DOMAIN limiters, ip \in IPs :
           clock'.ms < limiters[l].windowMs
             => results'[l][ip].passed <= limiters[l].max
      /\ \A r \in Reqs :
           Rejects(r) => /\ UNCHANGED <<disk, session, upstream>>
                         /\ ~req'[r].stored
                         /\ req'[r].calls = 0 ]_vars

\* C19: the Retry-After of a 429 is the time left in the client's window, in
\* seconds rounded up: the window length minus the time since it opened.
C19_RetryAfterIsRemainingWindow ==
  [][\A r \in Reqs :
       Rejects(r) =>
         LET lim == limiters[req'[r].route]
             opened == lim.hits[req'[r].ip].resetTime - lim.windowMs
         IN  req'[r].resp.retryAfter
               = Ceil(lim.windowMs - (clock.ms - opened), 1000)]_vars

\* the step in which the limiter of class l counts a request of ip
Counts(l, ip) == limiters'[l].hits[ip] # limiters[l].hits[ip]

C23_ReadyzFollowsUpstream ==
  \A r \in Reqs :
    /\ (req[r].route = "readyz" /\ Completed(r)) =>
          /\ req[r].sent = 1
          /\ Cardinality(CallsOf(r)) = 1
          /\ req[r].resp.status = (IF req[r].kind = "ok" THEN 200 ELSE 503)
    /\ (req[r].route = "healthz" /\ Completed(r)) =>
          /\ req[r].sent = 1
          /\ req[r].resp.status = 200
          /\ CallsOf(r) = {}

\* a /readyz answered after the upstream returned a 2xx status other than
\* 200, next to one answered after a 200
C23_Witness ==
  \E r1, r2 \in Reqs :
    /\ req[r1].route = "readyz" /\ Completed(r1) /\ req[r1].kind = "other2xx"
    /\ req[r2].route = "readyz" /\ Completed(r2) /\ req[r2].kind = "ok"

\* C22: a client that has sent more than the global maximum of requests
\* within the global window has been answered 429, also when its requests
\* went to endpoints that have no limiter of their own.
C22_GlobalBackstopAnswers429 ==
  \A ip \in IPs :
    (clock.ms < GLOBAL_WINDOW_MS /\ Sent("global", ip) > GLOBAL_LIMIT)
      => results["global"][ip].limited >= 1

\* C24: two POST /upload requests handled at the same time have different
\* temporary file paths, and the file of a request that is still streaming
\* it upstream is on disk as that request stored it: no other request has
\* overwritten or deleted it.
C24_TempFileOwnedByRequest ==
  /\ \A r1, r2 \in Reqs :
        ( /\ r1 # r2
          /\ req[r1].route = "upload" /\ req[r1].stored /\ ~Completed(r1)
          /\ req[r2].route = "upload" /\ req[r2].stored /\ ~Completed(r2) )
        => req[r1].path # req[r2].path
  /\ \A r \in Reqs :
        (req[r].route = "upload" /\ req[r].pc = "awaiting" /\ req[r].stored)
        => OnDisk(r)

\* the step in which the /ask request r ends after an upstream call failed
AskFails(r) ==
  /\ req[r].route = "ask" /\ ~Completed(r)
  /\ req'[r].pc = "done" /\ req'[r].kind \notin {"", "ok"}

\* a history of whole exchanges: user, assistant, user, assistant, ...
Alternates(h) ==
  /\ Len(h) % 2 = 0
  /\ \A i \in 1..Len(h) : h[i].role = (IF i % 2 = 1 THEN "user" ELSE "assistant")

\* C28: with the calls of a session serialized (request r is the only one
\* the gateway has received), a POST /ask whose upstream call fails leaves
\* the caller's chat history as it was when the request arrived, and the
\* history after any step alternates user, assistant and has even length.
C28_FailedAskKeepsHistory ==
  [][\A r \in Reqs :
       (\A r2 \in Reqs \ {r} : req[r2].pc = "idle") =>
         /\ AskFails(r) => session'[req[r].cookie].chatHistory = req[r].h0
         /\ Completed(r)' => \A c \in Cookies : Alternates(session'[c].chatHistory)
    ]_vars

\* C29: a handler that has ended has sent exactly one response: none sends
\* a second one, and none ends without one.
C29_ExactlyOneResponse ==
  \A r \in Reqs : Completed(r) => req[r].sent = 1

\* C25: the comparison view (the Comparison Mode row, the AI Comparison
\* card) is shown with exactly two selected documents and with no other
\* number, and a comparison request is sent only while exactly two
\* documents are selected.
C25_ComparisonOnlyWithTwo ==
  [][ /\ ui'.phase = "ready" =>
           /\ Len(ui'.selectedSessions) = 2 => ComparisonMode'
           /\ (ComparisonMode' \/ ui'.comparisonResult # Null)
                => Len(ui'.selectedSessions) = 2
      /\ ui'.pending["compare"] > ui.pending["compare"]
           => Len(ui.selectedSessions) = 2
    ]_vars

\* C26: opening the page never replaces a stored chat history or document
\* list by another value, and when the page has loaded, its chat history
\* and document list are those it held when it was closed.
C26_StorageRoundTrip ==
  [][ /\ ui.phase = "closed" =>
           /\ localStorage.chatHistory # NoItem
                => localStorage'.chatHistory = localStorage.chatHistory
           /\ localStorage.pdfs # NoItem => localStorage'.pdfs = localStorage.pdfs
      /\ (ui.phase = "mounted" /\ ui'.phase = "ready") =>
           /\ ui'.chatHistory = ui.heldChat
           /\ ui'.pdfs = ui.heldPdfs
    ]_vars

\* the step of the Clear History button
ClearStep ==
  /\ ui.phase = "ready"
  /\ ui' = [ui EXCEPT !.chatHistory = <<>>, !.pdfs = <<>>, !.selectedSessions = <<>>]
  /\ localStorage'.chatHistory = Item(StringifyChat(<<>>))

\* C27: Clear History leaves the stored theme preference as it was, and
\* the page opens in the mode it was in when it was closed: the stored
\* theme of an open page is its current mode.
C27_ThemeSurvivesClear ==
  [][ /\ ClearStep => localStorage'.theme = localStorage.theme
      /\ ui'.phase = "ready" => localStorage'.theme = Item(Stringify(ui'.darkMode))
    ]_vars

\* the in-flight flag of an action of the page
InFlight(k) ==
  CASE k = "upload" -> ui.uploading
    [] k = "ask" -> ui.asking
    [] k = "summarize" -> ui.summarizing
    [] k = "compare" -> ui.comparing

\* C30: the page has at most one request of each kind in flight, and the
\* in-flight flag of a kind is true exactly while its request is pending.
C30_OneRequestPerAction ==
  \A k \in PageActions :
    /\ ui.pending[k] <= 1
    /\ InFlight(k) <=> ui.pending[k] > 0

====
